---- MODULE Spec2Model ----
(***************************************************************************)
(* Model of scrapper/src/lib.rs: scrape_url(url) returns a JS Promise that *)
(* is settled by one async task: build a reqwest client, send a GET, check *)
(* the status, read the body, copy it into a Uint8Array.                   *)
(*                                                                         *)
(* The task runs on the single-threaded wasm executor: the code between    *)
(* two await points runs without interruption, so each action below is one *)
(* such segment of one invocation.  The outcomes of the HTTP client (build *)
(* result, response head, body chunks, end of body) are inputs.            *)
(***************************************************************************)
EXTENDS Integers, Sequences, FiniteSets, TLC

\* Bounds of the model.
MaxCalls == 2
MaxBody == 1

Calls == 1..MaxCalls
\* The invocations are made with distinct URLs.
UrlOf(i) == "http://test/" \o ToString(i)
Bytes == {0, 255}
Statuses == {199, 200, 299, 300, 404}
BuildErrors == {"Builder"}
SendErrors == {"Builder", "Request"}
BodyErrors == {"Body"}

VARIABLES
    state,      \* per invocation: where its task is
    path,       \* per invocation: the states entered so far, in order
    url,        \* per invocation: the String the task owns (line 13)
    promise,    \* per invocation: the Promise returned to the host
    settles,    \* per invocation: number of resolve/reject calls made on it
    clients,    \* per invocation: number of reqwest clients built
    gets,       \* per invocation: URLs of the GET requests dispatched
    reads,      \* per invocation: number of body reads started
    response,   \* per invocation: status of the Response held (0: none)
    stream,     \* per invocation: body bytes received so far
    console,    \* the host's console.error sink, shared by all invocations
    events,     \* per invocation: its effects, in program order
    inputs,     \* per invocation: the HTTP client outcomes it was given
    overlapped  \* whether two promises have been pending at the same time

vars == <<state, path, url, promise, settles, clients, gets, reads, response,
          stream, console, events, inputs, overlapped>>

NoPromise == [status |-> "none", bytes |-> <<>>, reason |-> ""]
PendingPromise == [status |-> "pending", bytes |-> <<>>, reason |-> ""]
Resolved(b) == [status |-> "resolved", bytes |-> b, reason |-> ""]
Rejected(m) == [status |-> "rejected", bytes |-> <<>>, reason |-> m]
NoInputs == [build |-> "none", send |-> "none", status |-> 0, bytes |-> "none",
             received |-> 0]
Ev(kind, msg) == [ev |-> kind, msg |-> msg]

\* A JS promise keeps its first settlement.
Settle(p, outcome) == IF p.status = "pending" THEN outcome ELSE p

\* {:?} of a reqwest::Error of the given kind.
Debug(e) == "reqwest::Error { kind: " \o e \o " }"

CanonicalReason(s) ==
    CASE s = 200 -> "OK"
      [] s = 300 -> "Multiple Choices"
      [] s = 404 -> "Not Found"
      [] OTHER -> "<unknown status code>"

\* {} of an http::StatusCode.
StatusDisplay(s) == ToString(s) \o " " \o CanonicalReason(s)

BuildErrMsg(e) == "Failed to build client: " \o Debug(e)
\* Faulty variant of RequestErrMsg: the prefix of the build branch pasted into
\* the request branch.
RequestErrMsg_CopyPaste(e) == "Failed to build client: " \o Debug(e)
RequestErrMsg(e) == "Request failed: " \o Debug(e)
BytesErrMsg(e) == "Failed to get bytes: " \o Debug(e)
HttpErrMsg(s) == "HTTP error: " \o StatusDisplay(s)

\* Faulty variant of is_success: redirections counted as success.
is_success_Wide(s) == 200 <= s /\ s < 400
is_success(s) == 200 <= s /\ s <= 299

\* usize -> u32 on the wasm32 target, where usize is 32 bits wide: the cast
\* keeps every value a length can have.
AsU32(n) == n
new_with_length(n) == [k \in 1..n |-> 0]
copy_from(array, src) == [k \in 1..Len(array) |-> src[k]]
\* Faulty variant of html_bytes: one buffer shared by all invocations.
html_bytes_Shared(i) == stream[1]
html_bytes(i) == stream[i]
\* Faulty variant of ToUint8Array: the array is allocated and never filled.
ToUint8Array_NoCopy(b) == new_with_length(AsU32(Len(b)))
ToUint8Array(b) == copy_from(new_with_length(AsU32(Len(b))), b)

Pending == {i \in Calls : promise[i].status = "pending"}

Init ==
    /\ state = [i \in Calls |-> "Idle"]
    /\ path = [i \in Calls |-> <<"Idle">>]
    /\ url = [i \in Calls |-> ""]
    /\ promise = [i \in Calls |-> NoPromise]
    /\ settles = [i \in Calls |-> 0]
    /\ clients = [i \in Calls |-> 0]
    /\ gets = [i \in Calls |-> <<>>]
    /\ reads = [i \in Calls |-> 0]
    /\ response = [i \in Calls |-> 0]
    /\ stream = [i \in Calls |-> <<>>]
    /\ console = <<>>
    /\ events = [i \in Calls |-> <<>>]
    /\ inputs = [i \in Calls |-> NoInputs]
    /\ overlapped = FALSE

\* Faulty variant of Fail: the rejection is made before the line is logged.
Fail_RejectFirst(i, m) ==
    /\ console' = Append(console, m)
    /\ promise' = [promise EXCEPT ![i] = Settle(@, Rejected(m))]
    /\ settles' = [settles EXCEPT ![i] = @ + 1]
    /\ events' = [events EXCEPT ![i] = @ \o <<Ev("reject", m), Ev("log", m)>>]
    /\ state' = [state EXCEPT ![i] = "Rejected"]

\* The error tail shared by the four failure branches: console::error_1 with
\* the message, then the future returns Err with the same message, which
\* future_to_promise turns into a rejection.
Fail(i, m) ==
    /\ console' = Append(console, m)
    /\ promise' = [promise EXCEPT ![i] = Settle(@, Rejected(m))]
    /\ settles' = [settles EXCEPT ![i] = @ + 1]
    /\ events' = [events EXCEPT ![i] = @ \o <<Ev("log", m), Ev("reject", m)>>]
    /\ state' = [state EXCEPT ![i] = "Rejected"]

\* scrape_url(url): copies the url, hands the future to future_to_promise and
\* returns the pending promise; the future has not been polled yet.
scrape_url(i, u) ==
    /\ state[i] = "Idle"
    /\ u = UrlOf(i)
    /\ url' = [url EXCEPT ![i] = u]
    /\ promise' = [promise EXCEPT ![i] = PendingPromise]
    /\ state' = [state EXCEPT ![i] = "ClientBuilding"]
    /\ path' = [path EXCEPT ![i] = Append(@, "ClientBuilding")]
    /\ overlapped' = (overlapped \/ Pending # {})
    /\ UNCHANGED <<settles, clients, gets, reads, response, stream, console,
                   events, inputs>>

\* First poll, Client::builder().build() is Ok: the GET is dispatched and the
\* task suspends on send().await.
BuildOk(i) ==
    /\ state[i] = "ClientBuilding"
    /\ inputs' = [inputs EXCEPT ![i].build = "ok"]
    /\ clients' = [clients EXCEPT ![i] = @ + 1]
    /\ gets' = [gets EXCEPT ![i] = Append(@, url[i])]
    /\ events' = [events EXCEPT ![i] = @ \o <<Ev("build", ""), Ev("get", url[i])>>]
    /\ state' = [state EXCEPT ![i] = "Requesting"]
    /\ path' = [path EXCEPT ![i] = Append(@, "Requesting")]
    /\ UNCHANGED <<url, promise, settles, reads, response, stream, console,
                   overlapped>>

\* Faulty variant of BuildErr: after logging, a default client is used and the
\* GET is dispatched all the same.
BuildErr_Fallback(i, e) ==
    /\ state[i] = "ClientBuilding"
    /\ inputs' = [inputs EXCEPT ![i].build = e]
    /\ console' = Append(console, BuildErrMsg(e))
    /\ clients' = [clients EXCEPT ![i] = @ + 1]
    /\ gets' = [gets EXCEPT ![i] = Append(@, url[i])]
    /\ events' = [events EXCEPT ![i] = @ \o <<Ev("log", BuildErrMsg(e)),
                                              Ev("build", ""), Ev("get", url[i])>>]
    /\ state' = [state EXCEPT ![i] = "Requesting"]
    /\ path' = [path EXCEPT ![i] = Append(@, "Requesting")]
    /\ UNCHANGED <<url, promise, settles, reads, response, stream, overlapped>>

\* First poll, build() is Err(e).
BuildErr(i, e) ==
    /\ state[i] = "ClientBuilding"
    /\ inputs' = [inputs EXCEPT ![i].build = e]
    /\ Fail(i, BuildErrMsg(e))
    /\ path' = [path EXCEPT ![i] = Append(@, "Rejected")]
    /\ UNCHANGED <<url, clients, gets, reads, response, stream, overlapped>>

\* Faulty variant of SendErr: a failed request is sent once more before the
\* task gives up.
SendErr_Retry(i, e) ==
    /\ state[i] = "Requesting"
    /\ inputs' = [inputs EXCEPT ![i].send = e]
    /\ IF Len(gets[i]) < 2
       THEN /\ gets' = [gets EXCEPT ![i] = Append(@, url[i])]
            /\ events' = [events EXCEPT ![i] = Append(@, Ev("get", url[i]))]
            /\ path' = [path EXCEPT ![i] = Append(@, "Requesting")]
            /\ UNCHANGED <<state, promise, settles, console>>
       ELSE /\ Fail(i, RequestErrMsg(e))
            /\ path' = [path EXCEPT ![i] = Append(@, "Rejected")]
            /\ UNCHANGED gets
    /\ UNCHANGED <<url, clients, reads, response, stream, overlapped>>

\* send().await is Err(e).
SendErr(i, e) ==
    /\ state[i] = "Requesting"
    /\ inputs' = [inputs EXCEPT ![i].send = e]
    /\ Fail(i, RequestErrMsg(e))
    /\ path' = [path EXCEPT ![i] = Append(@, "Rejected")]
    /\ UNCHANGED <<url, clients, gets, reads, response, stream, overlapped>>

\* Faulty variant of ResponseHead: the failing branch rejects and does not
\* return, so the body is read as well.
ResponseHead_NoReturn(i, s) ==
    /\ state[i] = "Requesting"
    /\ inputs' = [inputs EXCEPT ![i].send = "ok", ![i].status = s]
    /\ response' = [response EXCEPT ![i] = s]
    /\ reads' = [reads EXCEPT ![i] = @ + 1]
    /\ state' = [state EXCEPT ![i] = "BodyReading"]
    /\ path' = [path EXCEPT ![i] = @ \o <<"StatusCheck", "BodyReading">>]
    /\ IF is_success(s)
       THEN /\ events' = [events EXCEPT ![i] = Append(@, Ev("read", ""))]
            /\ UNCHANGED <<promise, settles, console>>
       ELSE /\ console' = Append(console, HttpErrMsg(s))
            /\ promise' = [promise EXCEPT ![i] = Settle(@, Rejected(HttpErrMsg(s)))]
            /\ settles' = [settles EXCEPT ![i] = @ + 1]
            /\ events' = [events EXCEPT ![i] = @ \o <<Ev("log", HttpErrMsg(s)),
                                                      Ev("reject", HttpErrMsg(s)),
                                                      Ev("read", "")>>]
    /\ UNCHANGED <<url, clients, gets, stream, overlapped>>

\* send().await is Ok(resp) with status s: on success the body read is
\* started and the task suspends on bytes().await, otherwise it fails.
ResponseHead(i, s) ==
    /\ state[i] = "Requesting"
    /\ inputs' = [inputs EXCEPT ![i].send = "ok", ![i].status = s]
    /\ response' = [response EXCEPT ![i] = s]
    /\ IF is_success(s)
       THEN /\ reads' = [reads EXCEPT ![i] = @ + 1]
            /\ events' = [events EXCEPT ![i] = Append(@, Ev("read", ""))]
            /\ state' = [state EXCEPT ![i] = "BodyReading"]
            /\ path' = [path EXCEPT ![i] = @ \o <<"StatusCheck", "BodyReading">>]
            /\ UNCHANGED <<promise, settles, console>>
       ELSE /\ Fail(i, HttpErrMsg(s))
            /\ path' = [path EXCEPT ![i] = @ \o <<"StatusCheck", "Rejected">>]
            /\ UNCHANGED reads
    /\ UNCHANGED <<url, clients, gets, stream, overlapped>>

\* A byte of the body arrives while the task is suspended on bytes().await.
BodyChunk(i, b) ==
    /\ state[i] = "BodyReading"
    /\ Len(stream[i]) < MaxBody
    /\ stream' = [stream EXCEPT ![i] = Append(@, b)]
    /\ UNCHANGED <<state, path, url, promise, settles, clients, gets, reads,
                   response, console, events, inputs, overlapped>>

\* bytes().await is Ok(html_bytes): the bytes are copied into a Uint8Array of
\* their length and the future returns Ok.  copy_from panics when the lengths
\* differ, which aborts the task and leaves the promise pending.
BytesOk(i) ==
    /\ state[i] = "BodyReading"
    /\ inputs' = [inputs EXCEPT ![i].bytes = "ok"]
    /\ IF Len(new_with_length(AsU32(Len(html_bytes(i))))) = Len(html_bytes(i))
       THEN /\ promise' = [promise EXCEPT
                             ![i] = Settle(@, Resolved(ToUint8Array(html_bytes(i))))]
            /\ settles' = [settles EXCEPT ![i] = @ + 1]
            /\ events' = [events EXCEPT ![i] = Append(@, Ev("resolve", ""))]
            /\ state' = [state EXCEPT ![i] = "Resolved"]
            /\ path' = [path EXCEPT ![i] = Append(@, "Resolved")]
       ELSE /\ state' = [state EXCEPT ![i] = "Panicked"]
            /\ path' = [path EXCEPT ![i] = Append(@, "Panicked")]
            /\ UNCHANGED <<promise, settles, events>>
    /\ UNCHANGED <<url, clients, gets, reads, response, stream, console,
                   overlapped>>

\* Faulty variant of BytesErr: the result is unwrapped, so a failed read
\* panics; the task is aborted and its promise is left pending.
BytesErr_Unwrap(i, e) ==
    /\ state[i] = "BodyReading"
    /\ inputs' = [inputs EXCEPT ![i].bytes = e, ![i].received = Len(stream[i])]
    /\ stream' = [stream EXCEPT ![i] = <<>>]
    /\ state' = [state EXCEPT ![i] = "Panicked"]
    /\ path' = [path EXCEPT ![i] = Append(@, "Panicked")]
    /\ UNCHANGED <<url, promise, settles, clients, gets, reads, response,
                   console, events, overlapped>>

\* Faulty variant of BytesErr: the bytes received before the failure are
\* handed to the caller.
BytesErr_Partial(i, e) ==
    /\ state[i] = "BodyReading"
    /\ inputs' = [inputs EXCEPT ![i].bytes = e, ![i].received = Len(stream[i])]
    /\ promise' = [promise EXCEPT ![i] = Settle(@, Resolved(ToUint8Array(stream[i])))]
    /\ settles' = [settles EXCEPT ![i] = @ + 1]
    /\ events' = [events EXCEPT ![i] = Append(@, Ev("resolve", ""))]
    /\ state' = [state EXCEPT ![i] = "Resolved"]
    /\ path' = [path EXCEPT ![i] = Append(@, "Resolved")]
    /\ stream' = [stream EXCEPT ![i] = <<>>]
    /\ UNCHANGED <<url, clients, gets, reads, response, console, overlapped>>

\* bytes().await is Err(e): what was received is dropped.
BytesErr(i, e) ==
    /\ state[i] = "BodyReading"
    /\ inputs' = [inputs EXCEPT ![i].bytes = e, ![i].received = Len(stream[i])]
    /\ stream' = [stream EXCEPT ![i] = <<>>]
    /\ Fail(i, BytesErrMsg(e))
    /\ path' = [path EXCEPT ![i] = Append(@, "Rejected")]
    /\ UNCHANGED <<url, clients, gets, reads, response, overlapped>>

\* Every step of the task of invocation i.
Poll(i) ==
    \/ BuildOk(i)
    \/ \E e \in BuildErrors : BuildErr(i, e)
    \/ \E e \in SendErrors : SendErr(i, e)
    \/ \E s \in Statuses : ResponseHead(i, s)
    \/ \E b \in Bytes : BodyChunk(i, b)
    \/ BytesOk(i)
    \/ \E e \in BodyErrors : BytesErr(i, e)

Next ==
    \/ \E i \in Calls : scrape_url(i, UrlOf(i))
    \/ \E i \in Calls : BuildOk(i)
    \/ \E i \in Calls, e \in BuildErrors : BuildErr(i, e)
    \/ \E i \in Calls, e \in SendErrors : SendErr(i, e)
    \/ \E i \in Calls, s \in Statuses : ResponseHead(i, s)
    \/ \E i \in Calls, b \in Bytes : BodyChunk(i, b)
    \/ \E i \in Calls : BytesOk(i)
    \/ \E i \in Calls, e \in BodyErrors : BytesErr(i, e)

Spec == Init /\ [][Next]_vars

\* The executor polls every spawned task, and every awaited network step
\* completes.
LiveSpec == Spec /\ \A i \in Calls : WF_vars(Poll(i))

\* The future of one invocation run to completion on its own, as a function
\* of the HTTP client outcomes it is given.
SoloOutcome(in, body) ==
    IF in.build \notin {"none", "ok"} THEN Rejected(BuildErrMsg(in.build))
    ELSE IF in.send \notin {"none", "ok"} THEN Rejected(RequestErrMsg(in.send))
    ELSE IF ~is_success(in.status) THEN Rejected(HttpErrMsg(in.status))
    ELSE IF in.bytes \notin {"none", "ok"} THEN Rejected(BytesErrMsg(in.bytes))
    ELSE Resolved(body)

-----------------------------------------------------------------------------
\* Vocabulary of the properties.

HasPrefix(m, p) == Len(m) >= Len(p) /\ SubSeq(m, 1, Len(p)) = p
IsErr(x) == x \notin {"none", "ok"}
Settled(i) == promise[i].status \in {"resolved", "rejected"}
Status2xx(i) ==
    inputs[i].send = "ok" /\ inputs[i].status >= 200 /\ inputs[i].status <= 299
StatusNot2xx(i) ==
    inputs[i].send = "ok" /\ (inputs[i].status < 200 \/ inputs[i].status > 299)
Count(seq, kinds) == Cardinality({k \in 1..Len(seq) : seq[k].ev \in kinds})
Last(p) == p[Len(p)]
Linear == <<"Idle", "ClientBuilding", "Requesting", "StatusCheck", "BodyReading">>
\* The line, cut anywhere; the whole line and then Resolved; the line cut
\* after a state that can fail, and then Rejected.
ForwardPaths ==
    {SubSeq(Linear, 1, n) : n \in 1..5}
    \cup {Linear \o <<"Resolved">>}
    \cup {SubSeq(Linear, 1, n) \o <<"Rejected">> : n \in 2..5}

\* C1: when the client is built, the GET returns a status in 200..299 and the
\* body read succeeds with bytes B, the promise is resolved with a buffer of
\* B's length holding B byte for byte, whatever B's length.
C1_ResolvesWithBody ==
    \A i \in Calls :
        (inputs[i].build = "ok" /\ Status2xx(i) /\ inputs[i].bytes = "ok")
        => /\ promise[i].status = "resolved"
           /\ Len(promise[i].bytes) = Len(stream[i])
           /\ \A k \in 1..Len(stream[i]) : promise[i].bytes[k] = stream[i][k]

\* C1 happens: one invocation resolved with a non-empty body after a 299,
\* another with the empty body after a 200.
C1_Witness ==
    \E i, j \in Calls :
        /\ inputs[i].status = 299 /\ inputs[i].bytes = "ok"
        /\ stream[i] = <<255>> /\ promise[i] = Resolved(<<255>>)
        /\ inputs[j].status = 200 /\ inputs[j].bytes = "ok"
        /\ stream[j] = <<>> /\ promise[j] = Resolved(<<>>)

\* C2: when the GET returns a status S outside 200..299, the promise is
\* rejected with "HTTP error: " followed by the number S, the body read is never
\* started, and no body byte reaches the caller.
C2_Non2xxRejects ==
    \A i \in Calls :
        StatusNot2xx(i)
        => /\ promise[i].status = "rejected"
           /\ HasPrefix(promise[i].reason,
                        "HTTP error: " \o ToString(inputs[i].status))
           /\ reads[i] = 0
           /\ Count(events[i], {"read", "resolve"}) = 0
           /\ stream[i] = <<>>
           /\ promise[i].bytes = <<>>

\* C2 happens: a 404 rejected as "HTTP error: 404 Not Found" and a 199 (just
\* below the range) rejected too.
C2_Witness ==
    \E i, j \in Calls :
        /\ inputs[i].status = 404
        /\ promise[i] = Rejected("HTTP error: 404 Not Found")
        /\ inputs[j].status = 199
        /\ promise[j].status = "rejected"

\* C3: the promise of an invocation is settled exactly once: at most one
\* resolve or reject is ever made on it, and it is settled iff one was made.
C3_SettledOnce ==
    \A i \in Calls :
        /\ settles[i] <= 1
        /\ Count(events[i], {"resolve", "reject"}) = settles[i]
        /\ Settled(i) <=> settles[i] = 1
        /\ promise[i].status = "resolved" => Count(events[i], {"reject"}) = 0
        /\ promise[i].status = "rejected" => Count(events[i], {"resolve"}) = 0

\* C3 happens: one invocation resolved and one rejected, each settled once.
C3_Witness ==
    \E i, j \in Calls :
        /\ promise[i].status = "resolved" /\ settles[i] = 1
        /\ promise[j].status = "rejected" /\ settles[j] = 1

\* C4: on an error path the line is logged, then the promise is rejected with
\* the same message; every rejection is preceded by its log line and every log
\* line is followed by its rejection.
C4_LogThenReject ==
    /\ \A i \in Calls :
        /\ \A k \in 1..Len(events[i]) :
            /\ events[i][k].ev = "log"
               => /\ k < Len(events[i])
                  /\ events[i][k + 1] = Ev("reject", events[i][k].msg)
            /\ events[i][k].ev = "reject"
               => /\ k > 1
                  /\ events[i][k - 1] = Ev("log", events[i][k].msg)
                  /\ promise[i] = Rejected(events[i][k].msg)
        /\ promise[i].status = "rejected"
           => /\ Count(events[i], {"reject"}) = 1
              /\ \E k \in 1..Len(console) : console[k] = promise[i].reason
        /\ (IsErr(inputs[i].build) \/ IsErr(inputs[i].send)
              \/ StatusNot2xx(i) \/ IsErr(inputs[i].bytes))
           => Count(events[i], {"log"}) = 1 /\ promise[i].status = "rejected"
    /\ Len(console) = Cardinality({i \in Calls : promise[i].status = "rejected"})

\* C4 happens: a client build failure and a body read failure, each logged
\* and then rejected.
C4_Witness ==
    \E i, j \in Calls :
        /\ IsErr(inputs[i].build) /\ promise[i].status = "rejected"
        /\ IsErr(inputs[j].bytes) /\ promise[j].status = "rejected"
        /\ Len(console) = 2
        /\ events[j][Len(events[j]) - 1].ev = "log"

\* C5: with several invocations outstanding and interleaved, each settles with
\* the outcome its own inputs give when run alone, requests only its own URL,
\* and the console holds one line per rejected invocation.
C5_Independent ==
    /\ \A i \in Calls :
        /\ Settled(i) => promise[i] = SoloOutcome(inputs[i], stream[i])
        /\ gets[i] \in {<<>>, <<UrlOf(i)>>}
        /\ promise[i].status = "rejected"
           => \E k \in 1..Len(console) : console[k] = promise[i].reason
    /\ Len(console) = Cardinality({i \in Calls : promise[i].status = "rejected"})

\* C5 happens: two invocations were pending together and resolved with
\* different bodies.
C5_Witness ==
    /\ overlapped
    /\ promise[1] = Resolved(<<0>>)
    /\ promise[2] = Resolved(<<255>>)

\* C6: an invocation whose promise is pending eventually has it resolved or
\* rejected, given that the executor polls it and its network steps complete.
C6_EventuallySettles ==
    \A i \in Calls : (promise[i].status = "pending") ~> Settled(i)

\* C6 happens: an invocation went through both await points and settled.
C6_Witness ==
    \E i \in Calls :
        /\ Settled(i)
        /\ Count(events[i], {"get"}) = 1
        /\ Count(events[i], {"read"}) = 1
        /\ Len(stream[i]) = MaxBody

\* C7: the prefix of a rejection names the step that failed and only that step.
C7_PrefixPerStep ==
    \A i \in Calls :
        promise[i].status = "rejected"
        => /\ HasPrefix(promise[i].reason, "Failed to build client: ")
              <=> IsErr(inputs[i].build)
           /\ HasPrefix(promise[i].reason, "Request failed: ")
              <=> IsErr(inputs[i].send)
           /\ HasPrefix(promise[i].reason, "HTTP error: ")
              <=> StatusNot2xx(i)
           /\ HasPrefix(promise[i].reason, "Failed to get bytes: ")
              <=> IsErr(inputs[i].bytes)
           /\ Cardinality({x \in {"build", "send", "status", "bytes"} :
                  \/ x = "build" /\ IsErr(inputs[i].build)
                  \/ x = "send" /\ IsErr(inputs[i].send)
                  \/ x = "status" /\ StatusNot2xx(i)
                  \/ x = "bytes" /\ IsErr(inputs[i].bytes)}) = 1

\* C7 happens: the same kind of client error at build time and at send time,
\* told apart by the prefix.
C7_Witness ==
    \E i, j \in Calls :
        /\ inputs[i].build = "Builder"
        /\ promise[i].reason = "Failed to build client: reqwest::Error { kind: Builder }"
        /\ inputs[j].send = "Builder"
        /\ promise[j].reason = "Request failed: reqwest::Error { kind: Builder }"

\* C8: a body read that fails, after any number of bytes, rejects with
\* "Failed to get bytes: ..." and resolves nothing; a resolved buffer is the
\* whole body of a read that succeeded.
C8_NoPartialBody ==
    \A i \in Calls :
        /\ IsErr(inputs[i].bytes)
           => /\ promise[i].status = "rejected"
              /\ HasPrefix(promise[i].reason, "Failed to get bytes: ")
              /\ promise[i].bytes = <<>>
              /\ Count(events[i], {"resolve"}) = 0
        /\ promise[i].status = "resolved"
           => inputs[i].bytes = "ok" /\ promise[i].bytes = stream[i]

\* C8 happens: reads that failed after one byte and after none.
C8_Witness ==
    \E i, j \in Calls :
        /\ IsErr(inputs[i].bytes) /\ inputs[i].received >= 1
        /\ promise[i].status = "rejected"
        /\ IsErr(inputs[j].bytes) /\ inputs[j].received = 0
        /\ promise[j].status = "rejected"

\* C9: an invocation goes forward through Idle, ClientBuilding, Requesting,
\* StatusCheck, BodyReading to a terminal state, revisits nothing, builds at
\* most one client and sends at most one GET; each failure leads from its own
\* state to Rejected, and Resolved follows BodyReading only.
C9_LinearStates ==
    \A i \in Calls :
        /\ state[i] = Last(path[i])
        /\ path[i] \in ForwardPaths
        /\ Cardinality({path[i][k] : k \in 1..Len(path[i])}) = Len(path[i])
        /\ clients[i] <= 1 /\ Len(gets[i]) <= 1 /\ reads[i] <= 1
        /\ Count(events[i], {"build"}) = clients[i]
        /\ Count(events[i], {"get"}) = Len(gets[i])
        /\ IsErr(inputs[i].build)
           => path[i] = <<"Idle", "ClientBuilding", "Rejected">>
        /\ IsErr(inputs[i].send)
           => path[i] = <<"Idle", "ClientBuilding", "Requesting", "Rejected">>
        /\ StatusNot2xx(i)
           => path[i] = <<"Idle", "ClientBuilding", "Requesting", "StatusCheck",
                          "Rejected">>
        /\ IsErr(inputs[i].bytes) => path[i] = Linear \o <<"Rejected">>
        /\ promise[i].status = "resolved" <=> state[i] = "Resolved"
        /\ promise[i].status = "rejected" <=> state[i] = "Rejected"

\* C9 happens: one invocation ran the whole line to Resolved, another left it
\* at the request.
C9_Witness ==
    \E i, j \in Calls :
        /\ path[i] = Linear \o <<"Resolved">>
        /\ path[j] = <<"Idle", "ClientBuilding", "Requesting", "Rejected">>
        /\ Len(gets[j]) = 1

\* C10: a GET is dispatched only after a successful client build; an
\* invocation whose build failed rejects with the build message and has made
\* no network call.
C10_NoGetWithoutClient ==
    \A i \in Calls :
        /\ IsErr(inputs[i].build)
           => /\ gets[i] = <<>>
              /\ Count(events[i], {"get", "read"}) = 0
              /\ promise[i].status = "rejected"
        /\ gets[i] # <<>> => inputs[i].build = "ok" /\ clients[i] = 1
        /\ \A k \in 1..Len(events[i]) :
              events[i][k].ev = "get" => k > 1 /\ events[i][k - 1].ev = "build"
        /\ (promise[i].status = "rejected"
              /\ HasPrefix(promise[i].reason, "Failed to build client: "))
           => gets[i] = <<>> /\ reads[i] = 0

\* C10 happens: one invocation rejected at the build with no GET, while another
\* built its client and sent one.
C10_Witness ==
    \E i, j \in Calls :
        /\ IsErr(inputs[i].build) /\ promise[i].status = "rejected"
        /\ gets[i] = <<>>
        /\ gets[j] = <<UrlOf(j)>> /\ clients[j] = 1
====
